---- MODULE Spec2Model ----
(***************************************************************************)
(* A model of dotdav (src/src/dotdav): the mapping store and its profile   *)
(* resolution (config.py), the add / remove / deploy commands and the      *)
(* autosync daemon (operations.py), and run_rclone (utils.py).             *)
(*                                                                         *)
(* Seven specifications share the module.  DaemonSpec is cmd_autosync: the *)
(* periodic puller thread, the watcher's debounce timers and the lock      *)
(* around run_rclone, over a discrete clock; DaemonLiveSpec is the same    *)
(* under a fair scheduler, ShutdownSpec the same with the interrupt that   *)
(* ends it, FeedbackSpec the same with no events but those of its own      *)
(* transfers.  FsSpec is the command line tool: add, remove,               *)
(* deploy and profile run one after another on a small file system.        *)
(* DeploySpec is deploy started in any state of mappings and file system.  *)
(* StepSpec is the command line tool with add and remove taken step by     *)
(* step.  Each specification leaves the others' variables alone.           *)
(***************************************************************************)
EXTENDS Integers, Sequences, FiniteSets, TLC

VARIABLES
    \* ---- cmd_autosync ----
    now,        \* the clock, in model time units
    pullPc,     \* where periodic_pull is: "start", "running", "sleeping", "exited"
    pullWake,   \* when the puller's time.sleep(interval) ends
    sync_lock,  \* holder of sync_lock: 0 free, -1 the puller, i > 0 timer i's callback
    timers,     \* every threading.Timer created so far: [st, started]
    timer,      \* AutoSyncHandler.timer: index into timers, 0 for None
    dropped,    \* the latest event given to on_any_event was not a qualifying one
    mainPc,     \* where cmd_autosync's main thread is: "watching", "joined", "exited"
    \* ---- configuration shared by both ----
    ignores,    \* config "ignores": a set of glob patterns
    \* ---- the command line tool ----
    current_profile,  \* config "current_profile"
    mappings,   \* mappings.yaml "files": key -> (profile -> repo filename)
    fs,         \* the file system: location -> node
    dirs,       \* the state of each parent directory
    last,       \* the last command run: its arguments, outcome and report
    prev,       \* the command before it
    nops        \* commands run so far

daemonVars == <<now, pullPc, pullWake, sync_lock, timers, timer, dropped>>
fsVars == <<current_profile, mappings, fs, dirs, last, prev, nops>>
vars == <<now, pullPc, pullWake, sync_lock, timers, timer, dropped, mainPc, ignores,
          current_profile, mappings, fs, dirs, last, prev, nops>>

(***************************************************************************)
(* Bounds of the model.                                                    *)
(***************************************************************************)
MaxTime == 7     \* the clock stops here
MaxEvents == 3   \* qualifying change events in one run
MaxOps == 4      \* commands in one run of the tool
MaxDeploys == 2  \* deploy passes in a row from one starting state
MaxSteps == 3    \* commands in one run of the tool taken step by step

\* config "debounce_seconds" and "sync_interval_minutes" * 60 are supplied by
\* the configuration; the model measures both in its own time unit.
debounce == 2
interval == 3

(***************************************************************************)
(* fnmatch.fnmatch on a basename: names and patterns are sequences of      *)
(* characters, "*" matches any run of characters and "?" any one.          *)
(***************************************************************************)
RECURSIVE FnMatch(_, _)
FnMatch(name, pat) ==
    IF pat = <<>> THEN name = <<>>
    ELSE IF Head(pat) = "*"
         THEN \/ FnMatch(name, Tail(pat))
              \/ name # <<>> /\ FnMatch(Tail(name), pat)
    ELSE IF name = <<>> THEN FALSE
    ELSE /\ (Head(pat) = "?" \/ Head(pat) = Head(name))
         /\ FnMatch(Tail(name), Tail(pat))

\* for pattern in ignores: if fnmatch(filename, pattern): ...
Ignored(name, pats) == \E p \in pats : FnMatch(name, p)

NameRc == <<"r", "c">>
NameTmp == <<"t", ".", "t">>
NameX == <<"x">>
PatTmp == <<"*", ".", "t">>
IgnoreChoices == {{}, {PatTmp}}

(***************************************************************************)
(* run_rclone: subprocess.run(check=True).  "ok" returns the result,       *)
(* "failed" is CalledProcessError (printed, returns None), "notfound" is   *)
(* FileNotFoundError, answered by sys.exit(1): SystemExit is raised in the *)
(* calling thread and unwinds it.                                          *)
(***************************************************************************)
RcloneOutcomes == {"ok", "failed", "notfound"}

\* Whether run_rclone returns to its caller (SystemExit does not).
Returns(outcome) == outcome # "notfound"

(***************************************************************************)
(* The watcher: AutoSyncHandler.on_any_event.                              *)
(***************************************************************************)
Events == [is_directory : BOOLEAN, src_name : {NameRc, NameTmp}]

\* Neither a directory event nor a basename matching an ignore pattern.
Qualifying(event) == ~event.is_directory /\ ~Ignored(event.src_name, ignores)

\* A cancel that has no effect on the timer.
CancelNothing(ts, i) == ts

\* threading.Timer.cancel(): sets the timer's finished flag, which only a
\* timer still waiting looks at.
Cancel(ts, i) ==
    IF i # 0 /\ ts[i].st = "waiting" THEN [ts EXCEPT ![i].st = "cancelled"] ELSE ts

\* A change event whose handler forgets to cancel the stored timer.
OnAnyEventNoCancel(event) ==
    /\ IF Qualifying(event)
       THEN /\ Len(timers) < MaxEvents
            /\ timers' = Append(timers, [st |-> "waiting", started |-> now])
            /\ timer' = Len(timers) + 1
       ELSE UNCHANGED <<timers, timer>>
    /\ dropped' = ~Qualifying(event)
    /\ UNCHANGED <<now, pullPc, pullWake, sync_lock, ignores, mainPc>>
    /\ UNCHANGED fsVars

\* A handler that restarts the timer on every event, qualifying or not.
OnAnyEventRestartsAlways(event) ==
    /\ Len(timers) < MaxEvents
    /\ timers' = Append(Cancel(timers, timer), [st |-> "waiting", started |-> now])
    /\ timer' = Len(timers) + 1
    /\ dropped' = ~Qualifying(event)
    /\ UNCHANGED <<now, pullPc, pullWake, sync_lock, ignores, mainPc>>
    /\ UNCHANGED fsVars

OnAnyEvent(event) ==
    /\ IF Qualifying(event)
       THEN /\ Len(timers) < MaxEvents
            /\ timers' = Append(Cancel(timers, timer),
                                [st |-> "waiting", started |-> now])
            /\ timer' = Len(timers) + 1
       ELSE UNCHANGED <<timers, timer>>
    /\ dropped' = ~Qualifying(event)
    /\ UNCHANGED <<now, pullPc, pullWake, sync_lock, ignores, mainPc>>
    /\ UNCHANGED fsVars

\* The timer thread's wait ends and, not cancelled, it calls push_callback.
TimerFire(i) ==
    /\ timers[i].st = "waiting"
    /\ now >= timers[i].started + debounce
    /\ timers' = [timers EXCEPT ![i].st = "acquire"]
    /\ UNCHANGED <<now, dropped, pullPc, pullWake, sync_lock, timer, ignores, mainPc>>
    /\ UNCHANGED fsVars

\* A push callback that enters run_rclone without taking the lock.
PushAcquireNoLock(i) ==
    /\ timers[i].st = "acquire"
    /\ timers' = [timers EXCEPT ![i].st = "running"]
    /\ UNCHANGED <<now, dropped, pullPc, pullWake, sync_lock, timer, ignores, mainPc>>
    /\ UNCHANGED fsVars

\* push_callback: with sync_lock: (entry)
PushAcquire(i) ==
    /\ timers[i].st = "acquire"
    /\ sync_lock = 0
    /\ sync_lock' = i
    /\ timers' = [timers EXCEPT ![i].st = "running"]
    /\ UNCHANGED <<now, dropped, pullPc, pullWake, timer, ignores, mainPc>>
    /\ UNCHANGED fsVars

\* A push callback that keeps the lock when run_rclone cannot be launched.
PushFinishKeepsLock(i, outcome) ==
    /\ timers[i].st = "running"
    /\ sync_lock' = IF Returns(outcome) THEN 0 ELSE sync_lock
    /\ timers' = [timers EXCEPT ![i].st = IF Returns(outcome) THEN "done" ELSE "exited"]
    /\ UNCHANGED <<now, dropped, pullPc, pullWake, timer, ignores, mainPc>>
    /\ UNCHANGED fsVars

\* push_callback: run_rclone ends and the with block releases the lock,
\* also when SystemExit unwinds the timer thread.
PushFinish(i, outcome) ==
    /\ timers[i].st = "running"
    /\ sync_lock' = 0
    /\ timers' = [timers EXCEPT ![i].st = IF Returns(outcome) THEN "done" ELSE "exited"]
    /\ UNCHANGED <<now, dropped, pullPc, pullWake, timer, ignores, mainPc>>
    /\ UNCHANGED fsVars

(***************************************************************************)
(* The puller: periodic_pull, a daemon thread.                             *)
(***************************************************************************)
PullAcquire ==
    /\ pullPc = "start"
    /\ sync_lock = 0
    /\ sync_lock' = -1
    /\ pullPc' = "running"
    /\ UNCHANGED <<now, dropped, pullWake, timers, timer, ignores, mainPc>>
    /\ UNCHANGED fsVars

\* A puller that goes on to sleep without releasing the lock.
PullFinishKeepsLock(outcome) ==
    /\ pullPc = "running"
    /\ IF Returns(outcome)
       THEN pullPc' = "sleeping" /\ pullWake' = now + interval
       ELSE pullPc' = "exited" /\ UNCHANGED pullWake
    /\ UNCHANGED <<now, dropped, sync_lock, timers, timer, ignores, mainPc>>
    /\ UNCHANGED fsVars

\* run_rclone ends; the with block releases the lock; then time.sleep(interval),
\* unless SystemExit has ended the thread.
PullFinish(outcome) ==
    /\ pullPc = "running"
    /\ sync_lock' = 0
    /\ IF Returns(outcome)
       THEN pullPc' = "sleeping" /\ pullWake' = now + interval
       ELSE pullPc' = "exited" /\ UNCHANGED pullWake
    /\ UNCHANGED <<now, dropped, timers, timer, ignores, mainPc>>
    /\ UNCHANGED fsVars

\* time.sleep(interval) returns and the while loop starts over.
PullWake ==
    /\ pullPc = "sleeping"
    /\ now >= pullWake
    /\ pullPc' = "start"
    /\ UNCHANGED <<now, dropped, pullWake, sync_lock, timers, timer, ignores, mainPc>>
    /\ UNCHANGED fsVars

\* Time passes.  A timer whose wait has run out acts before the clock moves on.
Tick ==
    /\ now < MaxTime
    /\ \A i \in 1..Len(timers) :
          timers[i].st = "waiting" => now < timers[i].started + debounce
    /\ now' = now + 1
    /\ UNCHANGED <<pullPc, pullWake, sync_lock, timers, timer, dropped, ignores, mainPc>>
    /\ UNCHANGED fsVars


(***************************************************************************)
(* The file system of the command line tool.                               *)
(*                                                                         *)
(* A location is <<root, directory, basename>>.  Two user paths share the  *)
(* basename "rc": ~/rc under the home directory and /o/rc outside it.  The *)
(* repository holds REPO_DIR/<profile>/rc for each profile.  The mapping   *)
(* key of a path (its home-relative or absolute string) names the path     *)
(* one to one, and deploy turns the key back into the same path, so the    *)
(* model uses the location itself as key.                                  *)
(***************************************************************************)
Profiles == {"default", "work"}
PHome == <<"~", "", "rc">>
POut == <<"/", "o", "rc">>
UserPaths == {PHome, POut}

\* REPO_DIR / repo_filename, with repo_filename = f"{profile}/{name}" kept as a pair.
RepoPath(repo_filename) == <<"repo", repo_filename[1], repo_filename[2]>>
RepoLocs == {RepoPath(<<p, "rc">>) : p \in Profiles}
Locs == UserPaths \cup RepoLocs

\* path.name and path.parent
Basename(l) == l[3]
ParentOf(l) == <<l[1], l[2]>>
HomeDir == <<"~", "">>
DirIds == {ParentOf(l) : l \in Locs}

\* The characters of a basename, for fnmatch and for directory listings.
Chars(b) == CASE b = "rc" -> NameRc

\* path.relative_to(Path.home()) succeeds.
UnderHome(l) == l[1] = "~"

\* mappings.yaml is written by yaml.safe_dump, which sorts the keys, and read
\* back in that order: "/o/rc", then the repository's paths, then "rc".
KeyOrder == <<POut, RepoPath(<<"default", "rc">>), RepoPath(<<"work", "rc">>), PHome>>

\* What a location holds.
NoNode == [kind |-> "none", content |-> 0, members |-> {}, target |-> <<>>]
File(c) == [kind |-> "file", content |-> c, members |-> {}, target |-> <<>>]
Dir(m) == [kind |-> "dir", content |-> 0, members |-> m, target |-> <<>>]
Link(t) == [kind |-> "link", content |-> 0, members |-> {}, target |-> t]

\* Path.resolve(): follows symlinks; a dangling link resolves to its target,
\* a symlink loop raises RuntimeError.
ELoop == <<"ELOOP", "", "">>
RECURSIVE ResolveN(_, _, _)
ResolveN(f, l, n) ==
    IF f[l].kind # "link" THEN l
    ELSE IF n = 0 THEN ELoop
    ELSE ResolveN(f, f[l].target, n - 1)
Resolve(f, l) == ResolveN(f, l, Cardinality(Locs))

\* Path.is_symlink(), Path.exists(), Path.is_dir(): the last two follow
\* symlinks and answer False on a loop.
IsSymlink(f, l) == f[l].kind = "link"
Exists(f, l) == Resolve(f, l) # ELoop /\ f[Resolve(f, l)].kind # "none"
IsDir(f, l) == Resolve(f, l) # ELoop /\ f[Resolve(f, l)].kind = "dir"

\* A directory in which entries can be created and removed.
Writable(d, dir) == d[dir] = "rw"

(***************************************************************************)
(* config.py: Mappings.  A missing entry reads as None; a or b is Python's *)
(* or.  A repo filename f"{profile}/{name}" is never empty, so it is       *)
(* truthy.                                                                 *)
(***************************************************************************)
None == <<>>
Truthy(v) == v # None
PyOr(a, b) == IF Truthy(a) THEN a ELSE b
EmptyDict == [k \in {} |-> None]
\* dict.get(key)
Get(d, k) == IF k \in DOMAIN d THEN d[k] ELSE None

\* A lookup that never falls back to the "default" entry.
GetRepoFileNoFallback(m, name, profile) ==
    LET files == IF name \in DOMAIN m THEN m[name] ELSE EmptyDict
    IN  Get(files, profile)

\* Mappings.get_repo_file
GetRepoFile(m, name, profile) ==
    LET files == IF name \in DOMAIN m THEN m[name] ELSE EmptyDict
    IN  PyOr(Get(files, profile), Get(files, "default"))

\* cmd_deploy: repo_file = profiles.get(current_profile) or profiles.get("default")
DeployResolve(profiles, profile) ==
    PyOr(Get(profiles, profile), Get(profiles, "default"))

\* cmd_remove: repo_f = profiles.get(profile) or profiles.get("default")
RemoveResolve(profiles, profile) ==
    PyOr(Get(profiles, profile), Get(profiles, "default"))

\* Mappings.add_file (and its save)
AddFile(m, name, profile, repo_filename) ==
    LET old == IF name \in DOMAIN m THEN m[name] ELSE EmptyDict
        new == [p \in DOMAIN old \cup {profile} |->
                   IF p = profile THEN repo_filename ELSE old[p]]
    IN  [k \in DOMAIN m \cup {name} |-> IF k = name THEN new ELSE m[k]]


(***************************************************************************)
(* cmd_deploy.  The loop body for one mapping entry, on the running state  *)
(* st = [fs, dirs, m, report, crashed]: the file system, the directories,  *)
(* the in-memory mappings, what was printed per key, and whether an        *)
(* exception has left the loop.  Only symlink_to sits in a try block; an   *)
(* exception anywhere else ends the command.                               *)
(***************************************************************************)
Say(st, k, what) == [st EXCEPT !.report[k] = what]
Crash(st, k) == [st EXCEPT !.report[k] = "Crash", !.crashed = TRUE]

\* dest_path.symlink_to(repo_path.resolve()) inside try / except Exception
DeployLink(st, k, repo_path) ==
    IF Resolve(st.fs, repo_path) = ELoop \/ ~Writable(st.dirs, ParentOf(k))
    THEN Say(st, k, "LinkError")
    ELSE Say([st EXCEPT !.fs[k] = Link(Resolve(st.fs, repo_path))], k, "Linked")

\* An occupied destination replaced whether or not force is given.
DeployOccupiedOverwrites(st, k, repo_path, force) ==
    IF ~Writable(st.dirs, ParentOf(k))
    THEN Crash(IF IsDir(st.fs, k) /\ ~IsSymlink(st.fs, k)
               THEN [st EXCEPT !.fs[k] = Dir({})] ELSE st, k)
    ELSE DeployLink([st EXCEPT !.fs[k] = NoNode], k, repo_path)

\* if dest_path.is_symlink() or dest_path.exists(): ...
\* With force the destination is removed (rmtree empties a directory before
\* its own removal fails in a read-only parent); without force it is compared.
DeployOccupied(st, k, repo_path, force) ==
    IF force
    THEN IF ~Writable(st.dirs, ParentOf(k))
         THEN Crash(IF IsDir(st.fs, k) /\ ~IsSymlink(st.fs, k)
                    THEN [st EXCEPT !.fs[k] = Dir({})] ELSE st, k)
         ELSE DeployLink([st EXCEPT !.fs[k] = NoNode], k, repo_path)
    ELSE IF ~IsSymlink(st.fs, k) THEN Say(st, k, "Conflict")
    ELSE IF Resolve(st.fs, k) = ELoop \/ Resolve(st.fs, repo_path) = ELoop
         THEN Crash(st, k)
    ELSE IF Resolve(st.fs, k) = Resolve(st.fs, repo_path)
         THEN Say(st, k, "UpToDate")
    ELSE Say(st, k, "Conflict")

\* From the destination on: the parent directory, then the symlink.
DeployDest(st, k, repo_path, force) ==
    LET par == ParentOf(k)
        made == IF st.dirs[par] = "absent"
                THEN [st EXCEPT !.dirs[par] = "rw"] ELSE st
    IN  IF st.dirs[par] = "blocked" THEN Crash(st, k)
        ELSE IF IsSymlink(made.fs, k) \/ Exists(made.fs, k)
             THEN DeployOccupied(made, k, repo_path, force)
        ELSE DeployLink(made, k, repo_path)

\* A loop body that drops an entry whose repository file is missing.
DeployEntryPrunes(st, k, profile, force) ==
    LET repo_file == DeployResolve(st.m[k], profile)
    IN  IF ~Truthy(repo_file) THEN Say(st, k, "Skipped")
        ELSE IF ~Exists(st.fs, RepoPath(repo_file))
             THEN Say([st EXCEPT !.m = [x \in DOMAIN st.m \ {k} |-> st.m[x]]],
                      k, "Warning")
        ELSE DeployDest(st, k, RepoPath(repo_file), force)

DeployEntry(st, k, profile, force) ==
    LET repo_file == DeployResolve(st.m[k], profile)
    IN  IF ~Truthy(repo_file) THEN Say(st, k, "Skipped")
        ELSE IF ~Exists(st.fs, RepoPath(repo_file)) THEN Say(st, k, "Warning")
        ELSE DeployDest(st, k, RepoPath(repo_file), force)

\* for user_file, profiles in mappings.data["files"].items(): from entry i on.
\* The keys to visit are those of the mappings as loaded.
RECURSIVE DeployLoop(_, _, _, _, _)
DeployLoop(st, keys, i, profile, force) ==
    IF i > Len(KeyOrder) THEN st
    ELSE IF KeyOrder[i] \notin keys THEN DeployLoop(st, keys, i + 1, profile, force)
    ELSE IF st.crashed
         THEN DeployLoop(Say(st, KeyOrder[i], "NotReached"), keys, i + 1, profile, force)
    ELSE DeployLoop(DeployEntry(st, KeyOrder[i], profile, force),
                    keys, i + 1, profile, force)

NoReport == [k \in Locs |-> "-"]

\* A whole deploy pass over file system f, directories d and mappings m.
DeployRun(f, d, m, profile, force) ==
    DeployLoop([fs |-> f, dirs |-> d, m |-> m, report |-> NoReport,
                crashed |-> FALSE],
               DOMAIN m, 1, profile, force)


(***************************************************************************)
(* cmd_add and cmd_remove.  Each yields [fs, dirs, m, result, key]: the    *)
(* state the command leaves (an uncaught exception, result "crash", keeps  *)
(* what was done before it), and the mapping key it worked on.             *)
(***************************************************************************)
\* args.profile or config.get("current_profile"); no --profile reads as "".
NoProfile == ""
ProfileOr(arg, cur) == IF arg # NoProfile THEN arg ELSE cur

Outcome(f, d, m, result, key) ==
    [fs |-> f, dirs |-> d, m |-> m, result |-> result, key |-> key]

\* shutil.ignore_patterns(*ignore_patterns) applied to a directory listing
Kept(members, pats) == {n \in members : ~Ignored(n, pats)}

\* target_path.is_dir(): rmtree of an existing destination (which refuses a
\* file or a symlink), then copytree with the ignore patterns (which needs
\* the source to be there still and the destination to be free).
AddCopyTree(f, target, dest, pats) ==
    LET f1 == IF Exists(f, dest) /\ f[dest].kind = "dir"
              THEN [f EXCEPT ![dest] = NoNode] ELSE f
    IN  IF Exists(f, dest) /\ f[dest].kind # "dir" THEN [ok |-> FALSE, fs |-> f]
        ELSE IF f1[target].kind # "dir" \/ f1[dest].kind # "none"
             THEN [ok |-> FALSE, fs |-> f1]
        ELSE [ok |-> TRUE,
              fs |-> [f1 EXCEPT ![dest] = Dir(Kept(f1[target].members, pats))]]

\* shutil.copy2(target_path, dest_path): into a directory if the destination
\* is one, refused on the same file, else written through a symlink.
AddCopyFile(f, d, target, dest) ==
    LET r == Resolve(f, dest)
    IN  IF r = ELoop THEN [ok |-> FALSE, fs |-> f]
        ELSE IF f[r].kind = "dir"
             THEN [ok |-> TRUE,
                   fs |-> [f EXCEPT ![r] = Dir(f[r].members \cup {Chars(Basename(target))})]]
        ELSE IF r = target THEN [ok |-> FALSE, fs |-> f]
        ELSE IF f[r].kind = "none" /\ ~Writable(d, ParentOf(r))
             THEN [ok |-> FALSE, fs |-> f]
        ELSE [ok |-> TRUE, fs |-> [f EXCEPT ![r] = File(f[target].content)]]

\* The key add records: the resolved path, home-relative or absolute.
AddKey(f, file) == Resolve(f, file)

AddRun(f, d, m, cur, pats, file, arg) ==
    LET target == Resolve(f, file)
        profile == ProfileOr(arg, cur)
        d1 == [d EXCEPT ![<<"repo", profile>>] = "rw"]
        dest == RepoPath(<<profile, Basename(target)>>)
        copy == IF IsDir(f, target) THEN AddCopyTree(f, target, dest, pats)
                ELSE AddCopyFile(f, d1, target, dest)
    IN  IF target = ELoop THEN Outcome(f, d, m, "crash", None)
        ELSE IF ~Exists(f, target) THEN Outcome(f, d, m, "notfound", None)
        ELSE IF ~copy.ok THEN Outcome(copy.fs, d1, m, "crash", None)
        ELSE Outcome(copy.fs, d1,
                     AddFile(m, AddKey(f, file), profile, <<profile, Basename(target)>>),
                     "ok", AddKey(f, file))

\* cmd_remove: the search through the mappings for the entry whose repository
\* file the symlink points at; None when there is none, ELoop when resolve raises.
RECURSIVE RemoveSearch(_, _, _, _, _)
RemoveSearch(f, m, profile, target_resolve, i) ==
    IF i > Len(KeyOrder) THEN None
    ELSE IF KeyOrder[i] \notin DOMAIN m
         THEN RemoveSearch(f, m, profile, target_resolve, i + 1)
    ELSE LET repo_f == RemoveResolve(m[KeyOrder[i]], profile)
         IN  IF ~Truthy(repo_f) THEN RemoveSearch(f, m, profile, target_resolve, i + 1)
             ELSE IF Resolve(f, RepoPath(repo_f)) = ELoop THEN ELoop
             ELSE IF Resolve(f, RepoPath(repo_f)) = target_resolve THEN KeyOrder[i]
             ELSE RemoveSearch(f, m, profile, target_resolve, i + 1)

\* The mapping key of remove: from the raw path if it is under home, else
\* from the resolved path; failing that, by the symlink search.
RemoveKey(f, m, profile, raw_path) ==
    LET direct == IF UnderHome(raw_path) THEN raw_path ELSE Resolve(f, raw_path)
    IN  IF direct \in DOMAIN m THEN direct
        ELSE IF IsSymlink(f, raw_path)
             THEN RemoveSearch(f, m, profile, Resolve(f, raw_path), 1)
        ELSE None

\* A removal that deletes the profile entry and keeps the file entry even
\* when no profile is left in it.
RemoveEntryKeepsEmpty(m, key, profile) ==
    [m EXCEPT ![key] = [p \in DOMAIN m[key] \ {profile} |-> m[key][p]]]

\* del mappings.data["files"][key][profile], then the empty file entry; save.
RemoveEntry(m, key, profile) ==
    LET rest == [p \in DOMAIN m[key] \ {profile} |-> m[key][p]]
    IN  IF DOMAIN rest = {} THEN [k \in DOMAIN m \ {key} |-> m[k]]
        ELSE [m EXCEPT ![key] = rest]

\* The restore step: whatever occupies raw_path is deleted, then the
\* repository file is copied there (copytree creates missing parents, copy2
\* does not).
RemoveRestore(f, d, raw_path, repo_path) ==
    LET par == ParentOf(raw_path)
        occupied == Exists(f, raw_path) \/ IsSymlink(f, raw_path)
        f1 == IF occupied THEN [f EXCEPT ![raw_path] = NoNode] ELSE f
        src == Resolve(f1, repo_path)
    IN  IF occupied /\ ~Writable(d, par)
        THEN [ok |-> FALSE, dirs |-> d,
              fs |-> IF IsDir(f, raw_path) /\ ~IsSymlink(f, raw_path)
                     THEN [f EXCEPT ![raw_path] = Dir({})] ELSE f]
        ELSE IF IsDir(f1, repo_path)
             THEN IF d[par] \in {"blocked", "ro"} THEN [ok |-> FALSE, dirs |-> d, fs |-> f1]
                  ELSE [ok |-> TRUE, dirs |-> [d EXCEPT ![par] = "rw"],
                        fs |-> [f1 EXCEPT ![raw_path] = Dir(f1[src].members)]]
        ELSE IF ~Exists(f1, repo_path) \/ ~Writable(d, par)
             THEN [ok |-> FALSE, dirs |-> d, fs |-> f1]
        ELSE [ok |-> TRUE, dirs |-> d,
              fs |-> [f1 EXCEPT ![raw_path] = File(f1[src].content)]]

\* The last step: the repository file is deleted (rmtree refuses a symlink
\* to a directory), then its profile directory if that is left empty.
RemoveArtifact(f, d, repo_path) ==
    IF ~Exists(f, repo_path) THEN [ok |-> TRUE, dirs |-> d, fs |-> f]
    ELSE IF IsDir(f, repo_path) /\ IsSymlink(f, repo_path)
         THEN [ok |-> FALSE, dirs |-> d, fs |-> f]
    ELSE [ok |-> TRUE, dirs |-> [d EXCEPT ![ParentOf(repo_path)] = "absent"],
          fs |-> [f EXCEPT ![repo_path] = NoNode]]

RemoveRun(f, d, m, cur, raw_path, arg) ==
    LET profile == ProfileOr(arg, cur)
        key == RemoveKey(f, m, profile, raw_path)
        repo_filename == GetRepoFile(m, key, profile)
        repo_path == RepoPath(repo_filename)
        restored == RemoveRestore(f, d, raw_path, repo_path)
        m1 == RemoveEntry(m, key, profile)
        gone == RemoveArtifact(restored.fs, restored.dirs, repo_path)
    IN  IF Resolve(f, raw_path) = ELoop \/ key = ELoop THEN Outcome(f, d, m, "crash", None)
        ELSE IF key = None THEN Outcome(f, d, m, "nottracked", None)
        ELSE IF ~Truthy(repo_filename) THEN Outcome(f, d, m, "noversion", key)
        ELSE IF ~restored.ok THEN Outcome(restored.fs, restored.dirs, m, "crash", key)
        ELSE IF ~gone.ok THEN Outcome(gone.fs, gone.dirs, m1, "crash", key)
        ELSE Outcome(gone.fs, gone.dirs, m1, "ok", key)


(***************************************************************************)
(* The commands as actions.  last records the command just run: its        *)
(* arguments, the profile it used, how it ended, the key it worked on, the *)
(* repository file name it worked on (repo), what its path held before it  *)
(* ran, and deploy's report; prev is the command before it.                *)
(***************************************************************************)
NoCmd ==
    [cmd |-> "none", file |-> None, profile |-> NoProfile, force |-> FALSE,
     result |-> "none", key |-> None, repo |-> None, before |-> NoNode,
     report |-> NoReport]

Add(file, arg) ==
    LET out == AddRun(fs, dirs, mappings, current_profile, ignores, file, arg)
    IN  /\ nops < MaxOps
        /\ fs' = out.fs
        /\ dirs' = out.dirs
        /\ mappings' = out.m
        /\ last' = [cmd |-> "add", file |-> file,
                    profile |-> ProfileOr(arg, current_profile), force |-> FALSE,
                    result |-> out.result, key |-> out.key,
                    repo |-> IF out.result = "ok"
                             THEN <<ProfileOr(arg, current_profile),
                                    Basename(Resolve(fs, file))>>
                             ELSE None,
                    before |-> fs[file], report |-> NoReport]
        /\ prev' = last
        /\ nops' = nops + 1
        /\ UNCHANGED <<current_profile, ignores, mainPc>>
        /\ UNCHANGED daemonVars

Remove(file, arg) ==
    LET out == RemoveRun(fs, dirs, mappings, current_profile, file, arg)
    IN  /\ nops < MaxOps
        /\ fs' = out.fs
        /\ dirs' = out.dirs
        /\ mappings' = out.m
        /\ last' = [cmd |-> "remove", file |-> file,
                    profile |-> ProfileOr(arg, current_profile), force |-> FALSE,
                    result |-> out.result, key |-> out.key,
                    repo |-> IF out.key # None
                             THEN GetRepoFile(mappings, out.key,
                                              ProfileOr(arg, current_profile))
                             ELSE None,
                    before |-> fs[file], report |-> NoReport]
        /\ prev' = last
        /\ nops' = nops + 1
        /\ UNCHANGED <<current_profile, ignores, mainPc>>
        /\ UNCHANGED daemonVars

Deploy(force) ==
    LET out == DeployRun(fs, dirs, mappings, current_profile, force)
    IN  /\ nops < MaxOps
        /\ fs' = out.fs
        /\ dirs' = out.dirs
        /\ mappings' = out.m
        /\ last' = [cmd |-> "deploy", file |-> None, profile |-> current_profile,
                    force |-> force,
                    result |-> IF out.crashed THEN "crash" ELSE "ok",
                    key |-> None, repo |-> None, before |-> NoNode,
                    report |-> out.report]
        /\ prev' = last
        /\ nops' = nops + 1
        /\ UNCHANGED <<current_profile, ignores, mainPc>>
        /\ UNCHANGED daemonVars

\* cmd_profile with a name: config.set("current_profile", name)
Profile(name) ==
    /\ nops < MaxOps
    /\ current_profile' = name
    /\ last' = [NoCmd EXCEPT !.cmd = "profile", !.profile = name, !.result = "ok"]
    /\ prev' = last
    /\ nops' = nops + 1
    /\ UNCHANGED <<mappings, fs, dirs, ignores, mainPc>>
    /\ UNCHANGED daemonVars

(***************************************************************************)
(* cmd_add and cmd_remove step by step, for what holds between their       *)
(* steps.  last.result is the place the running command has reached:       *)
(* "copying" and "copied" in add, "restored" and "saved" in remove.  The   *)
(* process may be killed there, and the next command then finds what the   *)
(* steps before have left.                                                 *)
(***************************************************************************)
InProgress == {"copying", "copied", "restored", "saved"}
Idle == last.result \notin InProgress

\* cmd_add up to the copy: the path is resolved and looked for, the profile
\* directory of the repository is made.
AddStartRun(f, d, cur, file, arg) ==
    LET target == Resolve(f, file)
        profile == ProfileOr(arg, cur)
    IN  IF target = ELoop THEN [dirs |-> d, result |-> "crash", key |-> None, repo |-> None]
        ELSE IF ~Exists(f, target)
             THEN [dirs |-> d, result |-> "notfound", key |-> None, repo |-> None]
        ELSE [dirs |-> [d EXCEPT ![<<"repo", profile>>] = "rw"], result |-> "copying",
              key |-> AddKey(f, file), repo |-> <<profile, Basename(target)>>]

\* An add that writes its mapping entry before anything is copied.
AddStartRecordsFirst(file, arg) ==
    LET out == AddStartRun(fs, dirs, current_profile, file, arg)
    IN  /\ Idle
        /\ nops < MaxSteps
        /\ dirs' = out.dirs
        /\ mappings' = IF out.result = "copying"
                       THEN AddFile(mappings, out.key, ProfileOr(arg, current_profile),
                                    out.repo)
                       ELSE mappings
        /\ last' = [cmd |-> "add", file |-> file,
                    profile |-> ProfileOr(arg, current_profile), force |-> FALSE,
                    result |-> out.result, key |-> out.key, repo |-> out.repo,
                    before |-> fs[file], report |-> NoReport]
        /\ prev' = last
        /\ nops' = nops + 1
        /\ UNCHANGED <<fs, current_profile, ignores, mainPc>>
        /\ UNCHANGED daemonVars

AddStart(file, arg) ==
    LET out == AddStartRun(fs, dirs, current_profile, file, arg)
    IN  /\ Idle
        /\ nops < MaxSteps
        /\ dirs' = out.dirs
        /\ last' = [cmd |-> "add", file |-> file,
                    profile |-> ProfileOr(arg, current_profile), force |-> FALSE,
                    result |-> out.result, key |-> out.key, repo |-> out.repo,
                    before |-> fs[file], report |-> NoReport]
        /\ prev' = last
        /\ nops' = nops + 1
        /\ UNCHANGED <<fs, mappings, current_profile, ignores, mainPc>>
        /\ UNCHANGED daemonVars

\* cmd_add: the copy into the repository, copytree or copy2.
AddCopy ==
    LET target == Resolve(fs, last.file)
        dest == RepoPath(last.repo)
        copy == IF IsDir(fs, target) THEN AddCopyTree(fs, target, dest, ignores)
                ELSE AddCopyFile(fs, dirs, target, dest)
    IN  /\ last.cmd = "add" /\ last.result = "copying"
        /\ fs' = copy.fs
        /\ last' = [last EXCEPT !.result = IF copy.ok THEN "copied" ELSE "crash"]
        /\ UNCHANGED <<dirs, mappings, prev, nops, current_profile, ignores, mainPc>>
        /\ UNCHANGED daemonVars

\* cmd_add: mappings.add_file(mapping_key, profile, repo_filename)
AddRecord ==
    /\ last.cmd = "add" /\ last.result = "copied"
    /\ mappings' = AddFile(mappings, last.key, last.profile, last.repo)
    /\ last' = [last EXCEPT !.result = "ok"]
    /\ UNCHANGED <<fs, dirs, prev, nops, current_profile, ignores, mainPc>>
    /\ UNCHANGED daemonVars

\* cmd_remove up to the end of the restore step.
RemoveStart(file, arg) ==
    LET profile == ProfileOr(arg, current_profile)
        key == RemoveKey(fs, mappings, profile, file)
        repo_filename == GetRepoFile(mappings, key, profile)
        restored == RemoveRestore(fs, dirs, file, RepoPath(repo_filename))
        early == IF Resolve(fs, file) = ELoop \/ key = ELoop THEN "crash"
                 ELSE IF key = None THEN "nottracked"
                 ELSE IF ~Truthy(repo_filename) THEN "noversion"
                 ELSE "no"
    IN  /\ Idle
        /\ nops < MaxSteps
        /\ IF early # "no" THEN UNCHANGED <<fs, dirs>>
           ELSE fs' = restored.fs /\ dirs' = restored.dirs
        /\ last' = [cmd |-> "remove", file |-> file, profile |-> profile,
                    force |-> FALSE,
                    result |-> IF early # "no" THEN early
                               ELSE IF restored.ok THEN "restored" ELSE "crash",
                    key |-> IF early \in {"crash", "nottracked"} THEN None ELSE key,
                    repo |-> IF early = "no" THEN repo_filename ELSE None,
                    before |-> fs[file], report |-> NoReport]
        /\ prev' = last
        /\ nops' = nops + 1
        /\ UNCHANGED <<mappings, current_profile, ignores, mainPc>>
        /\ UNCHANGED daemonVars

\* cmd_remove: the profile entry (and the emptied file entry) deleted, save.
RemoveSave ==
    /\ last.cmd = "remove" /\ last.result = "restored"
    /\ mappings' = RemoveEntry(mappings, last.key, last.profile)
    /\ last' = [last EXCEPT !.result = "saved"]
    /\ UNCHANGED <<fs, dirs, prev, nops, current_profile, ignores, mainPc>>
    /\ UNCHANGED daemonVars

\* cmd_remove: the repository file deleted.
RemoveDelete ==
    LET gone == RemoveArtifact(fs, dirs, RepoPath(last.repo))
    IN  /\ last.cmd = "remove" /\ last.result = "saved"
        /\ fs' = gone.fs
        /\ dirs' = gone.dirs
        /\ last' = [last EXCEPT !.result = IF gone.ok THEN "ok" ELSE "crash"]
        /\ UNCHANGED <<mappings, prev, nops, current_profile, ignores, mainPc>>
        /\ UNCHANGED daemonVars

\* The process is killed between two steps of a command.
Kill ==
    /\ ~Idle
    /\ last' = [last EXCEPT !.result = "killed"]
    /\ UNCHANGED <<fs, dirs, mappings, prev, nops, current_profile, ignores, mainPc>>
    /\ UNCHANGED daemonVars

(***************************************************************************)
(* Initial states.                                                         *)
(***************************************************************************)
\* cmd_autosync as it starts: the puller about to pull, no timer yet.
\* cmd_autosync, lines 351-356: KeyboardInterrupt ends the main loop,
\* observer.stop() and observer.join() end the watcher. handler.timer is not
\* touched: a timer that was started stays as it is.
Interrupt ==
    /\ mainPc = "watching"
    /\ mainPc' = "joined"
    /\ UNCHANGED <<daemonVars, ignores>>
    /\ UNCHANGED fsVars

\* cmd_autosync returns and the interpreter exits; the puller and the timers,
\* which no one joins, are abandoned where they are.
Exit ==
    /\ mainPc = "joined"
    /\ mainPc' = "exited"
    /\ UNCHANGED <<daemonVars, ignores>>
    /\ UNCHANGED fsVars

DaemonInit ==
    /\ now = 0
    /\ pullPc = "start"
    /\ pullWake = 0
    /\ sync_lock = 0
    /\ timers = <<>>
    /\ timer = 0
    /\ dropped = FALSE
    /\ mainPc = "watching"

\* The file system before the first command: a file or a directory at ~/rc;
\* /o absent, or present (writable or not) with a file or a directory at
\* /o/rc; an empty repository and no mappings (cmd_init).
HomeNodes == {File(1), Dir({NameX, NameTmp})}
OutNodes == {<<NoNode, "absent">>, <<File(2), "rw">>, <<File(2), "ro">>,
             <<Dir({NameX}), "rw">>}

\* The directories that go with file system f when /o is in state od: a
\* profile directory of the repository exists when it holds something.
DirsFor(f, od) ==
    [x \in DirIds |->
        IF x = HomeDir THEN "rw"
        ELSE IF x = ParentOf(POut) THEN od
        ELSE IF \E l \in RepoLocs : ParentOf(l) = x /\ f[l].kind # "none"
             THEN "rw" ELSE "absent"]

FsInit ==
    /\ current_profile = "default"
    /\ mappings = EmptyDict
    /\ \E h \in HomeNodes, o \in OutNodes :
          /\ fs = [l \in Locs |->
                     IF l = PHome THEN h ELSE IF l = POut THEN o[1] ELSE NoNode]
          /\ dirs = DirsFor(fs, o[2])
    /\ last = NoCmd
    /\ prev = NoCmd
    /\ nops = 0

(***************************************************************************)
(* Any state deploy can be started in.  The mappings are those add can     *)
(* write: an entry for profile p of key k names p/basename(k), and a key   *)
(* is a user path or, after add on a path deployed as a symlink, the       *)
(* repository path it resolved to (under another profile, since copying a  *)
(* repository file onto itself fails).  The user paths hold nothing, a     *)
(* file, a directory or a symlink into the repository; the repository      *)
(* holds files.                                                            *)
(***************************************************************************)
ProfileSets(k) ==
    IF k \in UserPaths THEN SUBSET Profiles
    ELSE {{}} \cup {{q} : q \in Profiles \ {k[2]}}

MappingsOf(sel) ==
    [k \in {x \in Locs : sel[x] # {}} |-> [p \in sel[k] |-> <<p, Basename(k)>>]]

AnyUserNodes == {NoNode, File(1), Dir({NameX})} \cup {Link(r) : r \in RepoLocs}
AnyRepoNodes == {NoNode, File(2)}

AnyFsInit ==
    /\ current_profile \in Profiles
    /\ \E sel \in [Locs -> SUBSET Profiles] :
          /\ \A k \in Locs : sel[k] \in ProfileSets(k)
          /\ mappings = MappingsOf(sel)
    /\ \E h \in AnyUserNodes, o \in AnyUserNodes, rd \in AnyRepoNodes,
          rw \in AnyRepoNodes, od \in {"absent", "blocked", "ro", "rw"} :
          /\ (od \in {"absent", "blocked"}) => o = NoNode
          /\ fs = [l \in Locs |->
                     IF l = PHome THEN h
                     ELSE IF l = POut THEN o
                     ELSE IF l = RepoPath(<<"default", "rc">>) THEN rd ELSE rw]
          /\ dirs = DirsFor(fs, od)
    /\ last = NoCmd
    /\ prev = NoCmd
    /\ nops = 0

\* The command line tool at rest, for the daemon's specification.
FsIdle ==
    /\ current_profile = "default"
    /\ mappings = EmptyDict
    /\ fs = [l \in Locs |-> NoNode]
    /\ dirs = DirsFor(fs, "absent")
    /\ last = NoCmd
    /\ prev = NoCmd
    /\ nops = 0

DaemonSpecInit == DaemonInit /\ FsIdle /\ ignores \in IgnoreChoices
FsSpecInit == DaemonInit /\ FsInit /\ ignores \in IgnoreChoices
DeploySpecInit == DaemonInit /\ AnyFsInit /\ ignores = {}

DaemonNext ==
    \/ \E event \in Events : OnAnyEvent(event)
    \/ \E i \in 1..Len(timers) : TimerFire(i)
    \/ \E i \in 1..Len(timers) : PushAcquire(i)
    \/ \E i \in 1..Len(timers), outcome \in RcloneOutcomes : PushFinish(i, outcome)
    \/ PullAcquire
    \/ \E outcome \in RcloneOutcomes : PullFinish(outcome)
    \/ PullWake
    \/ Tick

FsNext ==
    \/ \E file \in UserPaths, arg \in Profiles \cup {NoProfile} : Add(file, arg)
    \/ \E file \in UserPaths, arg \in Profiles \cup {NoProfile} : Remove(file, arg)
    \/ \E force \in BOOLEAN : Deploy(force)
    \/ \E name \in Profiles : Profile(name)

\* Deploy run again and again, at most MaxDeploys times.
DeployNext == \E force \in BOOLEAN : nops < MaxDeploys /\ Deploy(force)

\* The commands with add and remove taken step by step.
StepNext ==
    \/ \E file \in UserPaths, arg \in Profiles \cup {NoProfile} : AddStart(file, arg)
    \/ AddCopy
    \/ AddRecord
    \/ \E file \in UserPaths, arg \in Profiles \cup {NoProfile} : RemoveStart(file, arg)
    \/ RemoveSave
    \/ RemoveDelete
    \/ Kill
    \/ \E force \in BOOLEAN : Idle /\ nops < MaxSteps /\ Deploy(force)
    \/ \E name \in Profiles : Idle /\ nops < MaxSteps /\ Profile(name)

\* The autosync daemon.
DaemonSpec == DaemonSpecInit /\ [][DaemonNext]_vars
\* The commands, one after another, from a freshly initialised project.
FsSpec == FsSpecInit /\ [][FsNext]_vars
\* Deploy from any state.
DeploySpec == DeploySpecInit /\ [][DeployNext]_vars
\* The commands step by step, from a freshly initialised project.
StepSpec == FsSpecInit /\ [][StepNext]_vars

\* The daemon under a fair scheduler with transfers that terminate: a
\* run_rclone that has started returns (or raises), and a callback waiting
\* for sync_lock is not passed over for ever while the lock keeps coming free.
TimerSlots == 1..MaxEvents
PushAcquireOf(i) == i <= Len(timers) /\ PushAcquire(i)
PushFinishOf(i) == i <= Len(timers) /\ \E outcome \in RcloneOutcomes : PushFinish(i, outcome)
\* The daemon with its shutdown. The watcher delivers events until it is
\* joined; the puller's thread and the timers' threads go on until the
\* interpreter has exited, which follows the join with no sleep in between.
ShutdownNext ==
    \/ /\ mainPc = "watching"
       /\ \/ \E event \in Events : OnAnyEvent(event)
          \/ Tick
    \/ /\ mainPc # "exited"
       /\ \/ \E i \in 1..Len(timers) : TimerFire(i)
          \/ \E i \in 1..Len(timers) : PushAcquire(i)
          \/ \E i \in 1..Len(timers), outcome \in RcloneOutcomes : PushFinish(i, outcome)
          \/ PullAcquire
          \/ \E outcome \in RcloneOutcomes : PullFinish(outcome)
          \/ PullWake
    \/ Interrupt
    \/ Exit

ShutdownSpec == DaemonSpecInit /\ [][ShutdownNext]_vars

\* The watcher's events while the puller's transfer writes into REPO_DIR.
PullWrites(event) ==
    /\ pullPc = "running"
    /\ OnAnyEvent(event)

\* The watcher's events while a push reads REPO_DIR: on_any_event is given
\* every kind of event, and takes each one that is not of a directory and not
\* ignored, whatever its kind. Whether the watcher reports a file being
\* opened and closed by a reader is the platform's choice.
PushReads(event) ==
    /\ \E i \in 1..Len(timers) : timers[i].st = "running"
    /\ OnAnyEvent(event)

\* The daemon left to itself: nothing but its own transfers touches REPO_DIR.
FeedbackNext ==
    \/ \E event \in Events : PullWrites(event)
    \/ \E event \in Events : PushReads(event)
    \/ \E i \in 1..Len(timers) : TimerFire(i)
    \/ \E i \in 1..Len(timers) : PushAcquire(i)
    \/ \E i \in 1..Len(timers), outcome \in RcloneOutcomes : PushFinish(i, outcome)
    \/ PullAcquire
    \/ \E outcome \in RcloneOutcomes : PullFinish(outcome)
    \/ PullWake
    \/ Tick

FeedbackSpec == DaemonSpecInit /\ [][FeedbackNext]_vars

DaemonFairness ==
    /\ WF_vars(\E outcome \in RcloneOutcomes : PullFinish(outcome))
    /\ \A i \in TimerSlots : WF_vars(PushFinishOf(i))
    /\ \A i \in TimerSlots : SF_vars(PushAcquireOf(i))
    /\ SF_vars(PullAcquire)
\* The daemon configured with one ignore pattern, so that events of both
\* kinds, qualifying and dropped, arrive.
DaemonLiveInit == DaemonInit /\ FsIdle /\ ignores = {PatTmp}
DaemonLiveSpec == DaemonLiveInit /\ [][DaemonNext]_vars /\ DaemonFairness

(***************************************************************************)
(* Properties of the autosync daemon (DaemonSpec).                         *)
(***************************************************************************)
TimerIds == 1..Len(timers)
\* The push callbacks inside run_rclone, waiting for the lock, and the
\* timers whose callback has been called at all.
PushRunning == {i \in TimerIds : timers[i].st = "running"}
PushWaiting == {i \in TimerIds : timers[i].st = "acquire"}
Triggered == {i \in TimerIds : timers[i].st \notin {"waiting", "cancelled"}}
\* The timers that will still call their callback.
Pending == {i \in TimerIds : timers[i].st = "waiting"}
\* Every qualifying event came less than (more than) debounce after the one before.
AllClose == \A i \in TimerIds \ {1} : timers[i].started - timers[i - 1].started < debounce
AllFar == \A i \in TimerIds \ {1} : timers[i].started - timers[i - 1].started > debounce

\* C1: at most one transfer executes at any time: the puller's run_rclone and
\* the push callbacks' run_rclone never overlap, however many callbacks wait.
C1_OneTransferAtATime ==
    Cardinality(PushRunning) + (IF pullPc = "running" THEN 1 ELSE 0) <= 1

\* The puller is inside run_rclone while two push callbacks wait for the lock.
C1_Witness ==
    /\ pullPc = "running"
    /\ sync_lock = -1
    /\ Cardinality(PushWaiting) >= 2

\* C2: qualifying events each less than debounce after the previous one lead
\* to exactly one push (triggered already, or still to be triggered by the one
\* live timer); events each more than debounce after the previous one lead to
\* one push per event; whoever holds the lock meanwhile.
C2_DebounceCoalescing ==
    /\ (Len(timers) >= 1 /\ AllClose) =>
          Cardinality(Triggered) + Cardinality(Pending) = 1
    /\ AllFar => Cardinality(Triggered) + Cardinality(Pending) = Len(timers)

\* Three events in one burst have led to a single push, which waits for the
\* lock the puller holds.
C2_Witness ==
    /\ Len(timers) >= 3
    /\ AllClose
    /\ Pending = {}
    /\ Cardinality(Triggered) = 1
    /\ Cardinality(PushWaiting) = 1
    /\ sync_lock = -1

\* C8: no outcome of a transfer ends the pull loop: the puller thread is
\* never left by an exception.
C8_PullLoopNeverEnds == pullPc # "exited"


(***************************************************************************)
(* Properties of the mapping store and of add / remove (FsSpec).           *)
(***************************************************************************)
\* The profile entries of key k ("files".get(k, {})).
EntriesOf(k) == IF k \in DOMAIN mappings THEN mappings[k] ELSE EmptyDict

\* What resolution is to return: the profile's own entry, else the "default"
\* entry, else nothing.
Expected(k, p) ==
    IF p \in DOMAIN EntriesOf(k) THEN EntriesOf(k)[p]
    ELSE IF "default" \in DOMAIN EntriesOf(k) THEN EntriesOf(k)["default"]
    ELSE None

\* C3: for every key and profile, get_repo_file returns the profile's entry,
\* else the "default" entry, else nothing, and the deploy loop and remove's
\* symlink search resolve a mapped key to the same answer.
C3_ResolutionOrder ==
    \A k \in Locs, p \in Profiles :
        /\ GetRepoFile(mappings, k, p) = Expected(k, p)
        /\ k \in DOMAIN mappings =>
              /\ DeployResolve(mappings[k], p) = Expected(k, p)
              /\ RemoveResolve(mappings[k], p) = Expected(k, p)

\* One key has an entry only for "default" (its own for "default", the
\* fallback for "work"), another only for "work" (nothing for "default"), and
\* a third key is not mapped at all.
C3_Witness ==
    \E k1, k2, k3 \in Locs :
        /\ DOMAIN EntriesOf(k1) = {"default"}
        /\ DOMAIN EntriesOf(k2) = {"work"}
        /\ k3 \notin DOMAIN mappings
        /\ GetRepoFile(mappings, k1, "work") = <<"default", "rc">>
        /\ GetRepoFile(mappings, k2, "default") = None

\* add(file, profile) succeeded and remove(file, profile) ran right after it
\* and succeeded.
AddThenRemove ==
    /\ prev.cmd = "add" /\ prev.result = "ok"
    /\ last.cmd = "remove" /\ last.result = "ok"
    /\ last.file = prev.file
    /\ last.profile = prev.profile

\* C5: add then remove of the same path and profile leaves the path with the
\* content it had before add, no mapping entry for the key under that
\* profile, and no repository file for it.
C5_AddRemoveRoundTrip ==
    AddThenRemove =>
        /\ fs[prev.file] = prev.before
        /\ prev.profile \notin DOMAIN EntriesOf(prev.key)
        /\ ~Exists(fs, RepoPath(<<prev.profile, Basename(prev.key)>>))

\* The reports of an entry whose symlink deploy created or confirmed.
Succeeded == {"Linked", "UpToDate"}

\* add(file, profile) succeeded for a path under home and deploy without
\* force ran right after it under the same profile.
AddThenDeploy ==
    /\ prev.cmd = "add" /\ prev.result = "ok" /\ UnderHome(prev.file)
    /\ last.cmd = "deploy" /\ ~last.force
    /\ last.profile = prev.profile

DeployStep == last'.cmd = "deploy" /\ nops' = nops + 1

\* C4: deploy without force run twice in a row: the second run leaves the
\* file system as the first left it, and reports UpToDate for every entry
\* the first run linked or found up to date.
C4_DeployIdempotent ==
    [][(last.cmd = "deploy" /\ ~last.force /\ DeployStep /\ ~last'.force) =>
          /\ fs' = fs
          /\ dirs' = dirs
          /\ \A k \in Locs : last.report[k] \in Succeeded => last'.report[k] = "UpToDate"
      ]_vars

\* The destination of entry k is occupied by something other than a symlink
\* resolving to the entry's repository file (which exists), in a directory
\* whose entries can be replaced.
Occupied(k) ==
    LET repo_file == Expected(k, current_profile)
    IN  /\ k \in DOMAIN mappings
        /\ Truthy(repo_file)
        /\ Exists(fs, RepoPath(repo_file))
        /\ fs[k].kind # "none"
        /\ Writable(dirs, ParentOf(k))
        /\ ~(IsSymlink(fs, k) /\ Resolve(fs, k) = Resolve(fs, RepoPath(repo_file)))

\* C7: an occupied destination is reported Conflict and left as it is by
\* deploy without force, and replaced by the symlink to the entry's
\* repository file by deploy with force.  (Stated for mappings whose keys are
\* user paths, so that no entry's destination is another entry's repository
\* file.)
C7_ConflictPolicy ==
    [][(DeployStep /\ DOMAIN mappings \subseteq UserPaths) =>
          \A k \in UserPaths : Occupied(k) =>
              IF last'.force
              THEN fs'[k] = Link(Resolve(fs, RepoPath(Expected(k, current_profile))))
              ELSE fs'[k] = fs[k] /\ last'.report[k] = "Conflict"
      ]_vars

\* C9: deploy leaves the mappings as they were, whatever it reports.
C9_DeployKeepsMappings == [][DeployStep => mappings' = mappings]_vars

\* A deploy pass has linked one entry and warned about another.
C9_Witness ==
    /\ last.cmd = "deploy"
    /\ \E k1, k2 \in DOMAIN mappings :
          /\ last.report[k1] = "Linked"
          /\ last.report[k2] \in {"Warning", "Conflict", "LinkError"}

\* What deploy prints for an entry it has handled.
Handled == {"Skipped", "Warning", "UpToDate", "Conflict", "Linked", "LinkError"}

\* C10: every mapping entry is handled in a deploy pass, a failure on one
\* entry being reported for that entry.
C10_EveryEntryHandled ==
    last.cmd = "deploy" => \A k \in DOMAIN mappings : last.report[k] \in Handled

(***************************************************************************)
(* Properties of the mapping keys (FsSpec).                                *)
(***************************************************************************)
\* C11: the key a command uses for a user path is that path itself (its
\* home-relative or absolute name), never a path found by following a
\* symlink: every add or remove that gets as far as a key works on the key
\* of the path it was given.
C11_KeyIsThePath ==
    (last.cmd \in {"add", "remove"} /\ last.key # None) => last.key = last.file

\* C12: no file entry of the persisted mappings is left with zero profile
\* entries: remove deletes the file entry in the write that deletes its last
\* profile entry.
C12_NoEmptyFileEntry == \A k \in DOMAIN mappings : DOMAIN mappings[k] # {}

\* Two removes in a row on one key: the first deleted one of its two profile
\* entries, the second the last one and with it the file entry.
C12_Witness ==
    /\ prev.cmd = "remove" /\ prev.result = "ok"
    /\ last.cmd = "remove" /\ last.result = "ok"
    /\ last.key = prev.key
    /\ last.profile # prev.profile
    /\ last.key \notin DOMAIN mappings

(***************************************************************************)
(* Further properties of deploy (DeploySpec).                              *)
(***************************************************************************)
\* The destination of entry k is already a symlink resolving to the entry's
\* repository file.
LinkedAlready(k) ==
    LET repo_file == Expected(k, current_profile)
    IN  /\ k \in DOMAIN mappings
        /\ Truthy(repo_file)
        /\ Exists(fs, RepoPath(repo_file))
        /\ IsSymlink(fs, k)
        /\ Resolve(fs, k) = Resolve(fs, RepoPath(repo_file))

\* C13: with or without force, a destination that is already a symlink
\* resolving to the entry's repository file is reported UpToDate and left as
\* it is.  (Stated for passes that no exception ends and for mappings whose
\* keys are user paths.)
C13_UpToDateBeforeForce ==
    [][(DeployStep /\ last'.result = "ok" /\ DOMAIN mappings \subseteq UserPaths) =>
          \A k \in UserPaths : LinkedAlready(k) =>
              last'.report[k] = "UpToDate" /\ fs'[k] = fs[k]
      ]_vars

(***************************************************************************)
(* Properties of remove and add (FsSpec).                                  *)
(***************************************************************************)
\* A remove step, and one that succeeded.
RemoveStep == last'.cmd = "remove" /\ nops' = nops + 1
RemoveOk == RemoveStep /\ last'.result = "ok"

\* The repository file a remove step resolves to and deletes.
Removed == GetRepoFile(mappings, last'.key, last'.profile)

\* C14: after a successful remove, no profile entry of the key still names
\* the repository file that remove deleted, also when the profile asked for
\* has no entry and resolution fell back to the "default" entry.
C14_NoEntryForDeletedArtifact ==
    [][RemoveOk =>
          (last'.key \in DOMAIN mappings' =>
              \A p \in DOMAIN mappings'[last'.key] :
                  mappings'[last'.key][p] # Removed)
      ]_vars

(***************************************************************************)
(* Properties of the order of the steps in remove and add (StepSpec).      *)
(***************************************************************************)
\* A step of a running remove deletes the repository file remove resolved to.
DeletesArtifact ==
    /\ last'.cmd = "remove"
    /\ last'.repo # None
    /\ Exists(fs, RepoPath(last'.repo))
    /\ ~Exists(fs', RepoPath(last'.repo))

\* C15: once remove has deleted the repository file, the persisted mappings
\* no longer lead from the key and profile being removed to that file: the
\* entry is deleted and saved before the file is deleted.
C15_EntrySavedBeforeArtifactDeleted ==
    [][DeletesArtifact =>
          GetRepoFile(mappings', last'.key, last'.profile) # last'.repo
      ]_vars

\* C16: add writes its mapping entry only after the copy into the repository
\* has completed: the only step of an add that changes the mappings is the
\* one taken from "copied", with the repository file in place; an add whose
\* path is not found or whose copy fails never gets there and leaves the
\* mappings as they were.
C16_RecordAfterCopy ==
    [][(last'.cmd = "add" /\ mappings' # mappings) =>
          /\ last.cmd = "add" /\ last.result = "copied"
          /\ last'.result = "ok"
          /\ Exists(fs, RepoPath(last.repo))
          /\ mappings' = AddFile(mappings, last.key, last.profile, last.repo)
      ]_vars

\* An add has copied ~/rc into the repository and not yet recorded it, after
\* an earlier add whose copy failed and recorded nothing.
C16_Witness ==
    /\ last.cmd = "add" /\ last.result = "copied"
    /\ last.key \notin DOMAIN mappings
    /\ Exists(fs, RepoPath(last.repo))
    /\ prev.cmd = "add" /\ prev.result = "crash"
    /\ prev.key \notin DOMAIN mappings

(***************************************************************************)
(* Further properties of the autosync daemon (DaemonSpec, DaemonLiveSpec). *)
(***************************************************************************)
\* Timer i has expired and called push_callback, which waits for the lock.
Expired(i) == i <= Len(timers) /\ timers[i].st = "acquire"
\* The push of timer i is inside run_rclone and holds the lock.
Pushing(i) == i <= Len(timers) /\ timers[i].st = "running" /\ sync_lock = i

\* C17: every timer that expires leads to its push being executed under the
\* lock, whoever holds the lock when it expires.
C17_ExpiryLeadsToPush == \A i \in TimerSlots : Expired(i) ~> Pushing(i)

\* A push runs under the lock while a later expired callback waits for it,
\* the puller having finished its pull.
C17_Witness ==
    /\ Pushing(1)
    /\ Expired(2)
    /\ pullPc = "sleeping"

\* C18: at most one timer is pending (started, neither fired nor cancelled)
\* at any time, and it is the one the handler has stored.
C18_OnePendingTimer ==
    /\ Cardinality(Pending) <= 1
    /\ \A i \in Pending : timer = i

\* Three qualifying events: the first timer was cancelled by the second
\* event, the second has fired, the third is pending.
C18_Witness ==
    /\ Len(timers) = 3
    /\ timers[1].st = "cancelled"
    /\ timers[2].st \in {"acquire", "running", "done"}
    /\ Pending = {3}

\* C19: an event that is a directory event or whose basename matches an
\* ignore pattern leaves the debounce state as it is: no timer is started,
\* cancelled or restarted, and nothing else of the daemon moves.
C19_DroppedEventChangesNothing ==
    [][(~dropped /\ dropped') =>
          UNCHANGED <<timers, timer, sync_lock, pullPc, pullWake, now>>
      ]_vars

\* The latest event was dropped while a timer started by an earlier event is
\* pending: that timer is still the stored one and still waiting.
C19_Witness ==
    /\ dropped
    /\ timer # 0
    /\ Pending = {timer}
    /\ now > timers[timer].started

(***************************************************************************)
(* The repository tree and the lock (FsSpec).  The commands run in their   *)
(* own process: sync_lock is a local of cmd_autosync, and no command takes *)
(* it.                                                                     *)
(***************************************************************************)
\* What the repository holds: its files and its profile directories.
RepoTree == [l \in RepoLocs |-> fs[l]]
RepoDirs == [p \in Profiles |-> dirs[<<"repo", p>>]]

\* C20: the repository tree changes only while sync_lock is held by a
\* transfer; add, remove and deploy never write it.
C20_RepoWrittenUnderLock ==
    [][(RepoTree' # RepoTree \/ RepoDirs' # RepoDirs) => sync_lock # 0]_vars

(***************************************************************************)
(* What remove does to the path it is given (FsSpec).                      *)
(***************************************************************************)
\* C21: remove destroys nothing it cannot restore.  When the repository file
\* the mapping resolves to is missing, remove fails and leaves the file
\* system and the mappings as they were; and whenever remove changes what
\* occupies the path, the path ends up holding a real copy of the repository
\* file.
C21_RemoveRestoresOrLeaves ==
    [][RemoveStep =>
          /\ (Truthy(Removed) /\ ~Exists(fs, RepoPath(Removed))) =>
                /\ last'.result # "ok"
                /\ fs' = fs
                /\ mappings' = mappings
          /\ fs'[last'.file] # fs[last'.file] =>
                /\ Truthy(Removed)
                /\ Exists(fs, RepoPath(Removed))
                /\ fs'[last'.file] = fs[Resolve(fs, RepoPath(Removed))]
      ]_vars

(***************************************************************************)
(* The lock after a transfer (DaemonLiveSpec).                             *)
(***************************************************************************)
\* Whoever holds the lock is inside run_rclone.
HolderRunning ==
    /\ sync_lock = -1 => pullPc = "running"
    /\ \A i \in TimerSlots : sync_lock = i => (i <= Len(timers) /\ timers[i].st = "running")

\* C22: the lock is released after every transfer, however it ends: the lock
\* is never held while its holder is not transferring, and neither the puller
\* nor a push callback waits for the lock for ever.
C22_GateReleased ==
    /\ [](sync_lock # 0 => HolderRunning)
    /\ (pullPc = "start") ~> (pullPc = "running")
    /\ \A i \in TimerSlots : Expired(i) ~> ~Expired(i)

\* The puller's transfer could not be launched and ended its thread; the
\* lock it held has since been taken by a push.
C22_Witness ==
    /\ pullPc = "exited"
    /\ Pushing(1)

(***************************************************************************)
(* Shutdown (ShutdownSpec).                                                *)
(***************************************************************************)
\* Timer i's callback enters run_rclone in this step.
PushStarts(i) == timers[i].st # "running" /\ timers'[i].st = "running"

\* C23: once the watcher has been stopped and joined after an interrupt, no
\* push transfer is started; a timer that was pending at the interrupt never
\* gets to call the remote sync client.
C23_NoPushAfterShutdown ==
    [][mainPc # "watching" => \A i \in 1..Len(timers) : ~PushStarts(i)]_vars

(***************************************************************************)
(* Who schedules a push when the daemon is left to itself (FeedbackSpec).  *)
(***************************************************************************)
\* A debounce timer is started in this step.
TimerStarts == Len(timers') > Len(timers)

\* C24: the pull's writes into the repository schedule a push, a push
\* schedules nothing: every timer is started while the puller's transfer is
\* running and none while a push is running, so that one pull is followed by
\* a bounded number of pushes and no push follows from a push.
C24_OnlyPullsSchedule ==
    [][TimerStarts =>
          /\ pullPc = "running"
          /\ \A i \in 1..Len(timers) : ~Pushing(i)
      ]_vars

====
